---- MODULE Spec2Model ----
(***************************************************************************)
(* Model of the portfolio valuation script stock.py: input parsing and     *)
(* validation, the per-holding valuation loop (quote fetch, minor-unit and *)
(* FX normalisation, accumulation), the summary, and the historical series *)
(* loop (history fetch, normalisation, outer join, forward fill, row sum). *)
(*                                                                         *)
(* Numbers.  Python floats are modelled by exact fixed-point integers:     *)
(*   raw prices, closes, shares, buy prices : whole units                  *)
(*   native prices                          : 1/MinorUnitDivisor units     *)
(*   FX rates                               : 1/Parity (Parity is 1.0)     *)
(*   GBP prices and values                  : 1/Scale units                *)
(*   cost basis                             : whole units                  *)
(* A quotient is kept as the pair (num, den); dividing by zero raises.     *)
(***************************************************************************)
EXTENDS Integers, Sequences, FiniteSets, TLC

\* ------------------------------------------------------------- bounds
MaxHoldings == 2
MaxDates == 2

\* ------------------------------------------------- program constants
MinorUnitDivisor == 100
Parity == 100
Scale == MinorUnitDivisor * Parity

\* ------------------------------------------------------ input domains
\* Text of one comma-separated entry of each input field.
TickerTokens == {"aaa", "BBB"}
ShareTokens == {"3", "0", "x"}
BuyTokens == {"2", "0", "-1", "x"}
\* The narrower entry sets used when the whole run (with the chart) is explored.
ShareTokensNarrow == {"3", "x"}
BuyTokensNarrow == {"2", "x"}

\* A field is the sequence of its comma-separated entries; <<>> is the empty text.
Fields(tokens) == UNION {[1..n -> tokens] : n \in 0..MaxHoldings}

\* ------------------------------------------- market-data collaborator
Exchanges == {"LSE", "NYQ"}
Currencies == {"GBP", "USD"}
RawPrices == {200}
FxCloses == {50}
ClosePrices == {100, 300}
Dates == 1..MaxDates

NoInfo == [kind |-> "none", price |-> 0, currency |-> "", exchange |-> ""]
\* stock.info: the request raises, or a dict without a price, or a full quote.
InfoResponses ==
    {[kind |-> "raise", price |-> 0, currency |-> "", exchange |-> ""]}
    \cup {[kind |-> "noprice", price |-> 0, currency |-> "", exchange |-> ""]}
    \cup {[kind |-> "ok", price |-> p, currency |-> c, exchange |-> e] :
            p \in RawPrices, c \in Currencies, e \in Exchanges}

NoResp == [kind |-> "nocall", close |-> 0]
\* yf.Ticker(fx_ticker).history(period="1d"): raises, empty frame, or closes.
FxResponses ==
    {[kind |-> "raise", close |-> 0], [kind |-> "empty", close |-> 0]}
    \cup {[kind |-> "data", close |-> c] : c \in FxCloses}

\* stock.history(period="1mo")[['Close']]: raises, or a frame of closes by date
\* (possibly empty, possibly with gaps).
NoHist == [kind |-> "none", closes |-> <<>>]
HistResponses ==
    {[kind |-> "raise", closes |-> <<>>]}
    \cup {[kind |-> "frame", closes |-> f] :
            f \in UNION {[D -> ClosePrices] : D \in SUBSET Dates}}

\* --------------------------------------------------------- state
VARIABLES
    tickers_input, shares_input, buy_prices_input,  \* the three text fields
    tickers, shares, buy_prices_gbp,                \* the parsed lists
    pc,                 \* position of the script run
    i,                  \* index of the valuation loop (1-based)
    info,               \* stock.info of the holding in hand
    fx,                 \* the last FX lookup: from, response, rate, calls, raised
    portfolio_data,     \* result rows
    total_value_gbp, total_cost_gbp,
    total_return,       \* the summary's overall return, or NoSummary
    notices,            \* st.error / st.warning messages, in order
    requests,           \* number of market-data requests issued so far
    quote_log,          \* per evaluated holding: what the collaborator answered
    contrib,            \* which holdings were added to the totals and the rows
    h,                  \* index of the historical loop (1-based)
    hist,               \* the history frame in hand
    combined_df,        \* the joined frame
    chart,              \* the charted 'Total Value GBP' series, or NoChart
    hist_log,           \* per charted holding: closes and normalisation used
    crash               \* the exception that ended the run unhandled, or ""

vars == <<tickers_input, shares_input, buy_prices_input, tickers, shares,
          buy_prices_gbp, pc, i, info, fx, portfolio_data, total_value_gbp,
          total_cost_gbp, total_return, notices, requests, quote_log, contrib,
          h, hist, combined_df, chart, hist_log, crash>>

inputVars == <<tickers_input, shares_input, buy_prices_input>>
parsedVars == <<tickers, shares, buy_prices_gbp>>
valuationVars == <<portfolio_data, total_value_gbp, total_cost_gbp, quote_log,
                   contrib>>
historyVars == <<h, hist, combined_df, chart, hist_log>>

\* ------------------------------------------------------- helpers
RECURSIVE SumSeq(_)
SumSeq(s) == IF s = <<>> THEN 0 ELSE Head(s) + SumSeq(Tail(s))

RECURSIVE SumOver(_, _)
\* Sum of f[x] over the finite set S.
SumOver(S, f) ==
    IF S = {} THEN 0
    ELSE LET x == CHOOSE y \in S : TRUE IN f[x] + SumOver(S \ {x}, f)

MaxOf(S) == CHOOSE x \in S : \A y \in S : y <= x

Range(s) == {s[k] : k \in DOMAIN s}

\* A quotient num/den; Python raises ZeroDivisionError on a zero denominator.
Quot(num, den) ==
    IF den = 0 THEN [err |-> TRUE, num |-> 0, den |-> 1]
    ELSE [err |-> FALSE, num |-> num, den |-> den]
\* The literal 0 of the conditional expressions.
Zero == [err |-> FALSE, num |-> 0, den |-> 1]
NoSummary == [err |-> FALSE, num |-> 0, den |-> 0]

\* str.split(","): the empty text splits into one empty entry.
Split(field) == IF field = <<>> THEN <<"">> ELSE field

\* t.strip().upper()
StripUpper(t) ==
    CASE t = "aaa" -> "AAA"
      [] t = "BBB" -> "BBB"
      [] OTHER -> t

\* float(s.strip()): the value, or ValueError.
ParseFloat(s) ==
    CASE s = "3" -> [ok |-> TRUE, val |-> 3]
      [] s = "2" -> [ok |-> TRUE, val |-> 2]
      [] s = "0" -> [ok |-> TRUE, val |-> 0]
      [] s = "-1" -> [ok |-> TRUE, val |-> -1]
      [] OTHER -> [ok |-> FALSE, val |-> 0]

\* Mutant of ParsesAll: only the first entry is validated.
ParsesAllFirstOnly(entries) == ParseFloat(entries[1]).ok

\* A list comprehension of float(): fails as a whole when one entry fails.
ParsesAll(entries) == \A k \in DOMAIN entries : ParseFloat(entries[k]).ok
ParseList(entries) == [k \in DOMAIN entries |-> ParseFloat(entries[k]).val]

Notice(kind, ticker) == [kind |-> kind, ticker |-> ticker]

NoFx == [from |-> "", resp |-> NoResp, rate |-> 0, calls |-> 0, raised |-> FALSE]
EmptyFrame == [idx |-> {}, cols |-> <<>>]
NoChart == <<>>
NoContrib == [value |-> {}, cost |-> {}, rows |-> <<>>]

\* ------------------------------------------------------- initial state
InitRest ==
    /\ tickers = <<>> /\ shares = <<>> /\ buy_prices_gbp = <<>>
    /\ pc = "start"
    /\ i = 0
    /\ info = NoInfo
    /\ fx = NoFx
    /\ portfolio_data = <<>>
    /\ total_value_gbp = 0
    /\ total_cost_gbp = 0
    /\ total_return = NoSummary
    /\ notices = <<>>
    /\ requests = 0
    /\ quote_log = <<>>
    /\ contrib = NoContrib
    /\ h = 0
    /\ hist = NoHist
    /\ combined_df = EmptyFrame
    /\ chart = NoChart
    /\ hist_log = <<>>
    /\ crash = ""

Init ==
    /\ tickers_input \in Fields(TickerTokens)
    /\ shares_input \in Fields(ShareTokens)
    /\ buy_prices_input \in Fields(BuyTokens)
    /\ InitRest

InitNarrow ==
    /\ tickers_input \in Fields(TickerTokens)
    /\ shares_input \in Fields(ShareTokensNarrow)
    /\ buy_prices_input \in Fields(BuyTokensNarrow)
    /\ InitRest

\* ------------------------------------------- input parsing, validation
\* Lines 108-129.  With an empty ticker field the analysis block is not entered.
NoTickers ==
    /\ pc = "start"
    /\ tickers_input = <<>>
    /\ pc' = "done"
    /\ UNCHANGED <<inputVars, parsedVars, i, info, fx, valuationVars,
                   total_return, notices, requests, historyVars, crash>>

\* Lines 111-115: float() fails on an entry of the shares field.
ParseSharesFails ==
    /\ pc = "start"
    /\ tickers_input # <<>>
    /\ ~ParsesAll(Split(shares_input))
    /\ tickers' = [k \in DOMAIN Split(tickers_input) |->
                      StripUpper(Split(tickers_input)[k])]
    /\ notices' = Append(notices, Notice("error_shares", ""))
    /\ pc' = "stopped"
    /\ UNCHANGED <<inputVars, shares, buy_prices_gbp, i, info, fx,
                   valuationVars, total_return, requests, historyVars, crash>>

\* Lines 117-121: float() fails on an entry of the buy price field.
ParseBuyPricesFails ==
    /\ pc = "start"
    /\ tickers_input # <<>>
    /\ ParsesAll(Split(shares_input))
    /\ ~ParsesAll(Split(buy_prices_input))
    /\ tickers' = [k \in DOMAIN Split(tickers_input) |->
                      StripUpper(Split(tickers_input)[k])]
    /\ shares' = ParseList(Split(shares_input))
    /\ notices' = Append(notices, Notice("error_buy_prices", ""))
    /\ pc' = "stopped"
    /\ UNCHANGED <<inputVars, buy_prices_gbp, i, info, fx, valuationVars,
                   total_return, requests, historyVars, crash>>

\* Line 123: the three lists must have the same length.
LengthsDiffer(ts, ss, bs) == Len(ss) # Len(ts) \/ Len(bs) # Len(ts)

\* Lines 123-125.
LengthMismatch ==
    /\ pc = "start"
    /\ tickers_input # <<>>
    /\ ParsesAll(Split(shares_input))
    /\ ParsesAll(Split(buy_prices_input))
    /\ LengthsDiffer(Split(tickers_input), Split(shares_input),
                     Split(buy_prices_input))
    /\ tickers' = [k \in DOMAIN Split(tickers_input) |->
                      StripUpper(Split(tickers_input)[k])]
    /\ shares' = ParseList(Split(shares_input))
    /\ buy_prices_gbp' = ParseList(Split(buy_prices_input))
    /\ notices' = Append(notices, Notice("error_mismatch", ""))
    /\ pc' = "stopped"
    /\ UNCHANGED <<inputVars, i, info, fx, valuationVars, total_return,
                   requests, historyVars, crash>>

\* Lines 109-129: everything parsed, lengths agree; the loop starts.
BeginValuation ==
    /\ pc = "start"
    /\ tickers_input # <<>>
    /\ ParsesAll(Split(shares_input))
    /\ ParsesAll(Split(buy_prices_input))
    /\ ~LengthsDiffer(Split(tickers_input), Split(shares_input),
                      Split(buy_prices_input))
    /\ tickers' = [k \in DOMAIN Split(tickers_input) |->
                      StripUpper(Split(tickers_input)[k])]
    /\ shares' = ParseList(Split(shares_input))
    /\ buy_prices_gbp' = ParseList(Split(buy_prices_input))
    /\ portfolio_data' = <<>>
    /\ total_value_gbp' = 0
    /\ total_cost_gbp' = 0
    /\ i' = 1
    /\ pc' = "loop"
    /\ UNCHANGED <<inputVars, info, fx, quote_log, contrib, total_return,
                   notices, requests, historyVars, crash>>

\* ------------------------------------------------------ FX lookup
\* Mutant of GetFxRateToGbp: no try/except around the request.
GetFxRateToGbpNoHandler(from_currency, resp) ==
    IF from_currency = "GBP"
    THEN [from |-> from_currency, resp |-> NoResp, rate |-> Parity,
          calls |-> 0, raised |-> FALSE]
    ELSE CASE resp.kind = "data" ->
                [from |-> from_currency, resp |-> resp, rate |-> resp.close,
                 calls |-> 1, raised |-> FALSE]
           [] resp.kind = "empty" ->
                [from |-> from_currency, resp |-> resp, rate |-> Parity,
                 calls |-> 1, raised |-> FALSE]
           [] OTHER ->
                [from |-> from_currency, resp |-> resp, rate |-> 0,
                 calls |-> 1, raised |-> TRUE]

\* Mutant of GetFxRateToGbp: no early return for the base currency.
GetFxRateToGbpNoShortcut(from_currency, resp) ==
    CASE resp.kind = "data" ->
           [from |-> from_currency, resp |-> resp, rate |-> resp.close,
            calls |-> 1, raised |-> FALSE]
      [] OTHER ->
           [from |-> from_currency, resp |-> resp, rate |-> Parity,
            calls |-> 1, raised |-> FALSE]

\* get_fx_rate_to_gbp, lines 15-25.  resp is what the collaborator answers if
\* it is asked; calls counts the requests made, raised whether the call raises.
GetFxRateToGbp(from_currency, resp) ==
    IF from_currency = "GBP"
    THEN [from |-> from_currency, resp |-> NoResp, rate |-> Parity,
          calls |-> 0, raised |-> FALSE]
    ELSE CASE resp.kind = "data" ->
                [from |-> from_currency, resp |-> resp, rate |-> resp.close,
                 calls |-> 1, raised |-> FALSE]
           [] resp.kind = "empty" ->
                [from |-> from_currency, resp |-> resp, rate |-> Parity,
                 calls |-> 1, raised |-> FALSE]
           [] OTHER ->
                [from |-> from_currency, resp |-> resp, rate |-> Parity,
                 calls |-> 1, raised |-> FALSE]

\* ------------------------------------------------- quote normalisation
\* Mutant of CurrentPriceNative: the pence correction is forgotten.
CurrentPriceNativeNoCorrection(exchange, raw) == raw * MinorUnitDivisor

\* Lines 144-147: pence to pounds on the London exchange.
CurrentPriceNative(exchange, raw) ==
    IF exchange = "LSE"
    THEN (raw * MinorUnitDivisor) \div MinorUnitDivisor
    ELSE raw * MinorUnitDivisor

\* Line 150.
CurrentPriceGbp(native, fx_rate) == native * fx_rate

\* Line 152.
ValueGbp(price_gbp, qty) == price_gbp * qty

\* Line 153.
CostGbp(buy_price_gbp, qty) == buy_price_gbp * qty

\* Mutant of ReturnsGuard: >= instead of >.
ReturnsGuardNonNegative(buy_price_gbp) == buy_price_gbp >= 0

\* Line 155: the condition of the conditional expression.
ReturnsGuard(buy_price_gbp) == buy_price_gbp > 0

\* Line 155.
Returns(price_gbp, buy_price_gbp) ==
    IF ReturnsGuard(buy_price_gbp)
    THEN Quot((price_gbp - buy_price_gbp * Scale) * 100, buy_price_gbp * Scale)
    ELSE Zero

\* Lines 169-181 (the display-only P/E and rating fields are left out).
MakeRow(ticker, qty, buy_price_gbp, q, fx_rate) ==
    LET native == CurrentPriceNative(q.exchange, q.price)
        price_gbp == CurrentPriceGbp(native, fx_rate)
    IN [Ticker |-> ticker, Shares |-> qty, BuyPrice |-> buy_price_gbp,
        PriceNative |-> native, PriceGbp |-> price_gbp,
        Currency |-> q.currency,
        Value |-> ValueGbp(price_gbp, qty),
        Cost |-> CostGbp(buy_price_gbp, qty),
        Return |-> Returns(price_gbp, buy_price_gbp)]

\* Mutant of AppendRow: the new row is put in front.
PrependRow(rows, row) == <<row>> \o rows

\* Mutant of AddCost: a non-positive cost basis is not added.
AddCostPositiveOnly(total, cost_gbp) ==
    IF cost_gbp > 0 THEN total + cost_gbp ELSE total

\* Line 169.
AppendRow(rows, row) == Append(rows, row)
\* Line 183.
AddValue(total, value_gbp) == total + value_gbp
\* Line 184.
AddCost(total, cost_gbp) == total + cost_gbp

LogEntry(kind, q, fx_rate) ==
    [kind |-> kind, raw |-> q.price, exchange |-> q.exchange,
     currency |-> q.currency, rate |-> fx_rate]

\* ---------------------------------------------------- valuation loop
InLoop == pc = "loop" /\ i <= Len(tickers)

\* Mutant of QuoteRaises: the exception ends the loop instead of the iteration.
QuoteRaisesAborts ==
    /\ pc = "loop" /\ i <= Len(tickers)
    /\ \E r \in InfoResponses :
         /\ r.kind = "raise"
         /\ quote_log' = Append(quote_log, LogEntry("raise", r, 0))
    /\ requests' = requests + 1
    /\ notices' = Append(notices, Notice("warn_failed", tickers[i]))
    /\ i' = Len(tickers) + 1
    /\ UNCHANGED <<inputVars, parsedVars, pc, info, fx, portfolio_data,
                   total_value_gbp, total_cost_gbp, contrib, total_return,
                   historyVars, crash>>

\* Lines 132-134 and 186-187: the quote request raises; the handler warns and
\* the for loop goes on with the next holding.
QuoteRaises ==
    /\ InLoop
    /\ \E r \in InfoResponses :
         /\ r.kind = "raise"
         /\ quote_log' = Append(quote_log, LogEntry("raise", r, 0))
    /\ requests' = requests + 1
    /\ notices' = Append(notices, Notice("warn_failed", tickers[i]))
    /\ i' = i + 1
    /\ UNCHANGED <<inputVars, parsedVars, pc, info, fx, portfolio_data,
                   total_value_gbp, total_cost_gbp, contrib, total_return,
                   historyVars, crash>>

\* Lines 136-142: no regularMarketPrice; warn and continue.
QuoteNoPrice ==
    /\ InLoop
    /\ \E r \in InfoResponses :
         /\ r.kind = "noprice"
         /\ quote_log' = Append(quote_log, LogEntry("noprice", r, 0))
    /\ requests' = requests + 1
    /\ notices' = Append(notices, Notice("warn_no_price", tickers[i]))
    /\ i' = i + 1
    /\ UNCHANGED <<inputVars, parsedVars, pc, info, fx, portfolio_data,
                   total_value_gbp, total_cost_gbp, contrib, total_return,
                   historyVars, crash>>

\* Lines 133-138: a quote with a price.
QuoteOk ==
    /\ InLoop
    /\ \E r \in InfoResponses :
         /\ r.kind = "ok"
         /\ info' = r
    /\ requests' = requests + 1
    /\ pc' = "fx"
    /\ UNCHANGED <<inputVars, parsedVars, i, fx, valuationVars, total_return,
                   notices, historyVars, crash>>

\* Line 149: the FX lookup of the valuation loop.  An exception leaving the
\* lookup would be caught by the loop's handler (lines 186-187).
FxForQuote ==
    /\ pc = "fx"
    /\ \E resp \in FxResponses :
         /\ fx' = GetFxRateToGbp(info.currency, resp)
         /\ requests' = requests + fx'.calls
         /\ IF fx'.raised
            THEN /\ quote_log' = Append(quote_log, LogEntry("fx_fault", info, 0))
                 /\ notices' = Append(notices, Notice("warn_failed", tickers[i]))
                 /\ i' = i + 1
                 /\ info' = NoInfo
                 /\ pc' = "loop"
            ELSE /\ pc' = "compute"
                 /\ UNCHANGED <<quote_log, notices, i, info>>
    /\ UNCHANGED <<inputVars, parsedVars, portfolio_data, total_value_gbp,
                   total_cost_gbp, contrib, total_return, historyVars, crash>>

\* Lines 150-187: normalise, compute, append the row, add to both totals.  A
\* ZeroDivisionError in line 155 is caught by the handler before the append.
\* The locals of the iteration are dead afterwards and are reset.
Accumulate ==
    /\ pc = "compute"
    /\ LET row == MakeRow(tickers[i], shares[i], buy_prices_gbp[i], info, fx.rate)
       IN IF row.Return.err
          THEN /\ quote_log' = Append(quote_log, LogEntry("fault", info, fx.rate))
               /\ notices' = Append(notices, Notice("warn_failed", tickers[i]))
               /\ UNCHANGED <<portfolio_data, total_value_gbp, total_cost_gbp,
                              contrib>>
          ELSE /\ portfolio_data' = AppendRow(portfolio_data, row)
               /\ total_value_gbp' = AddValue(total_value_gbp, row.Value)
               /\ total_cost_gbp' = AddCost(total_cost_gbp, row.Cost)
               /\ quote_log' = Append(quote_log, LogEntry("ok", info, fx.rate))
               /\ contrib' =
                    [value |-> IF total_value_gbp' = total_value_gbp + row.Value
                               THEN contrib.value \cup {i} ELSE contrib.value,
                     cost |-> IF total_cost_gbp' = total_cost_gbp + row.Cost
                              THEN contrib.cost \cup {i} ELSE contrib.cost,
                     rows |-> IF Len(portfolio_data') = Len(portfolio_data) + 1
                              THEN Append(contrib.rows, i) ELSE contrib.rows]
               /\ UNCHANGED notices
    /\ i' = i + 1
    /\ info' = NoInfo
    /\ fx' = NoFx
    /\ pc' = "loop"
    /\ UNCHANGED <<inputVars, parsedVars, total_return, requests, historyVars,
                   crash>>

\* Line 204: the condition of the conditional expression.
TotalGuard(total_cost) == total_cost > 0

\* Line 204.
TotalReturn(total_value, total_cost) ==
    IF TotalGuard(total_cost)
    THEN Quot((total_value - total_cost * Scale) * 100, total_cost * Scale)
    ELSE Zero

\* Lines 189-209: some holding resolved; the table and the summary are shown
\* and the historical loop starts.  Line 204 is outside any handler.
Summarise ==
    /\ pc = "loop"
    /\ i > Len(tickers)
    /\ portfolio_data # <<>>
    /\ LET r == TotalReturn(total_value_gbp, total_cost_gbp)
       IN IF r.err
          THEN /\ crash' = "ZeroDivisionError"
               /\ pc' = "crashed"
               /\ UNCHANGED <<total_return, h>>
          ELSE /\ total_return' = r
               /\ pc' = "hist_loop"
               /\ h' = 1
               /\ UNCHANGED crash
    /\ UNCHANGED <<inputVars, parsedVars, i, info, fx, valuationVars, notices,
                   requests, hist, combined_df, chart, hist_log>>

\* Line 189: nothing resolved; no table, no summary, no chart.
NothingResolved ==
    /\ pc = "loop"
    /\ i > Len(tickers)
    /\ portfolio_data = <<>>
    /\ pc' = "done"
    /\ UNCHANGED <<inputVars, parsedVars, i, info, fx, valuationVars,
                   total_return, notices, requests, historyVars, crash>>

\* The valuation pass: validation, the valuation loop and the summary.
NextValuation ==
    \/ NoTickers
    \/ ParseSharesFails
    \/ ParseBuyPricesFails
    \/ LengthMismatch
    \/ BeginValuation
    \/ QuoteRaises
    \/ QuoteNoPrice
    \/ QuoteOk
    \/ FxForQuote
    \/ Accumulate
    \/ Summarise
    \/ NothingResolved

Spec == Init /\ [][NextValuation]_vars

\* ------------------------------------------------ historical series
InHistLoop == pc = "hist_loop" /\ h <= Len(tickers)

\* Line 214: the history request raises; no handler encloses lines 212-234.
HistoryRaises ==
    /\ InHistLoop
    /\ \E r \in HistResponses : r.kind = "raise"
    /\ requests' = requests + 1
    /\ crash' = "history"
    /\ pc' = "crashed"
    /\ UNCHANGED <<inputVars, parsedVars, i, info, fx, valuationVars,
                   total_return, notices, historyVars>>

\* Lines 215-216: an empty frame; the holding is left out of the chart.
HistoryEmpty ==
    /\ InHistLoop
    /\ \E r \in HistResponses : r.kind = "frame" /\ DOMAIN r.closes = {}
    /\ requests' = requests + 1
    /\ hist_log' = Append(hist_log, [kind |-> "empty", closes |-> <<>>,
                                     exchange |-> "", rate |-> 0])
    /\ h' = h + 1
    /\ UNCHANGED <<inputVars, parsedVars, pc, i, info, fx, valuationVars,
                   total_return, notices, hist, combined_df, chart, crash>>

\* Lines 214-217: a frame with at least one close.
HistoryOk ==
    /\ InHistLoop
    /\ \E r \in HistResponses :
         /\ r.kind = "frame" /\ DOMAIN r.closes # {}
         /\ hist' = r
    /\ requests' = requests + 1
    /\ pc' = "hist_info"
    /\ UNCHANGED <<inputVars, parsedVars, i, info, fx, valuationVars,
                   total_return, notices, h, combined_df, chart, hist_log,
                   crash>>

\* Line 219: the metadata request raises, unhandled.
HistInfoRaises ==
    /\ pc = "hist_info"
    /\ \E r \in InfoResponses : r.kind = "raise"
    /\ requests' = requests + 1
    /\ crash' = "info"
    /\ pc' = "crashed"
    /\ UNCHANGED <<inputVars, parsedVars, i, info, fx, valuationVars,
                   total_return, notices, historyVars>>

\* Lines 219-221: only currency and exchange are read.
HistInfoOk ==
    /\ pc = "hist_info"
    /\ \E r \in InfoResponses :
         /\ r.kind = "ok"
         /\ info' = [r EXCEPT !.price = 0]
    /\ requests' = requests + 1
    /\ pc' = "hist_fx"
    /\ UNCHANGED <<inputVars, parsedVars, i, fx, valuationVars, total_return,
                   notices, historyVars, crash>>

\* Line 226: the FX lookup of the historical loop; nothing would catch an
\* exception leaving it.
FxForHistory ==
    /\ pc = "hist_fx"
    /\ \E resp \in FxResponses :
         /\ fx' = GetFxRateToGbp(info.currency, resp)
         /\ requests' = requests + fx'.calls
         /\ IF fx'.raised
            THEN crash' = "fx" /\ pc' = "crashed"
            ELSE pc' = "hist_join" /\ UNCHANGED crash
    /\ UNCHANGED <<inputVars, parsedVars, i, info, valuationVars, total_return,
                   notices, historyVars>>

\* Lines 223-224: pence to pounds for every close.
HistCloseNative(exchange, close) ==
    IF exchange = "LSE"
    THEN (close * MinorUnitDivisor) \div MinorUnitDivisor
    ELSE close * MinorUnitDivisor

\* Lines 227-228.
HistValue(exchange, close, fx_rate, qty) ==
    HistCloseNative(exchange, close) * fx_rate * qty

\* Lines 223-229: the one-column frame named after the ticker.
HistColumn(ticker, qty, closes, exchange, fx_rate) ==
    [name |-> ticker,
     vals |-> [d \in DOMAIN closes |->
                  HistValue(exchange, closes[d], fx_rate, qty)]]

ColumnNames(df) == {df.cols[k].name : k \in DOMAIN df.cols}

\* Line 234: DataFrame.join(how="outer") raises ValueError when a column name
\* occurs on both sides.
JoinOverlaps(df, col) == col.name \in ColumnNames(df)

\* Lines 231-234.  A frame is its index (the dates, kept in date order) and its
\* columns; a cell is NaN where the date is outside the column's domain.
JoinOuter(df, col) ==
    IF df.idx = {}
    THEN [idx |-> DOMAIN col.vals, cols |-> <<col>>]
    ELSE [idx |-> df.idx \cup DOMAIN col.vals, cols |-> Append(df.cols, col)]

\* Lines 228-234; the locals of the iteration are dead afterwards and reset.
JoinHistory ==
    /\ pc = "hist_join"
    /\ LET col == HistColumn(tickers[h], shares[h], hist.closes, info.exchange,
                             fx.rate)
       IN IF combined_df.idx # {} /\ JoinOverlaps(combined_df, col)
          THEN /\ crash' = "ValueError"
               /\ pc' = "crashed"
               /\ UNCHANGED <<h, hist, combined_df, hist_log, info, fx>>
          ELSE /\ combined_df' = JoinOuter(combined_df, col)
               /\ hist_log' = Append(hist_log,
                                [kind |-> "frame", closes |-> hist.closes,
                                 exchange |-> info.exchange, rate |-> fx.rate])
               /\ h' = h + 1
               /\ hist' = NoHist
               /\ info' = NoInfo
               /\ fx' = NoFx
               /\ pc' = "hist_loop"
               /\ UNCHANGED crash
    /\ UNCHANGED <<inputVars, parsedVars, i, valuationVars, total_return,
                   notices, requests, chart>>

\* Mutant of FFillColumn: no forward fill.
FFillColumnNoFill(idx, col) == col

\* Line 237: fillna(method='ffill'): a NaN cell takes the column's value at the
\* latest earlier date of the index that has one; leading NaNs stay.
FFillColumn(idx, col) ==
    [name |-> col.name,
     vals |-> [d \in {e \in idx : \E p \in DOMAIN col.vals : p <= e} |->
                  col.vals[MaxOf({p \in DOMAIN col.vals : p <= d})]]]

FFill(df) ==
    [idx |-> df.idx,
     cols |-> [k \in DOMAIN df.cols |-> FFillColumn(df.idx, df.cols[k])]]

\* Line 238: sum(axis=1) skips NaN cells.
RowSums(df) ==
    [d \in df.idx |->
        SumSeq([k \in DOMAIN df.cols |->
                   IF d \in DOMAIN df.cols[k].vals
                   THEN df.cols[k].vals[d] ELSE 0])]

\* Lines 236-239.
DrawChart ==
    /\ pc = "hist_loop"
    /\ h > Len(tickers)
    /\ combined_df.idx # {}
    /\ combined_df' = FFill(combined_df)
    /\ chart' = RowSums(combined_df')
    /\ pc' = "done"
    /\ UNCHANGED <<inputVars, parsedVars, i, info, fx, valuationVars,
                   total_return, notices, requests, h, hist, hist_log, crash>>

\* Line 236: every history was empty; nothing is charted.
NoChartData ==
    /\ pc = "hist_loop"
    /\ h > Len(tickers)
    /\ combined_df.idx = {}
    /\ pc' = "done"
    /\ UNCHANGED <<inputVars, parsedVars, i, info, fx, valuationVars,
                   total_return, notices, requests, historyVars, crash>>

NextHistory ==
    \/ HistoryRaises
    \/ HistoryEmpty
    \/ HistoryOk
    \/ HistInfoRaises
    \/ HistInfoOk
    \/ FxForHistory
    \/ JoinHistory
    \/ DrawChart
    \/ NoChartData

\* The whole script run.
Next == NextValuation \/ NextHistory

SpecPipeline == InitNarrow /\ [][Next]_vars

\* ================================================================ claims
\* Holdings evaluated so far whose quote resolved (fetched, priced, computed).
Resolved == {k \in DOMAIN quote_log : quote_log[k].kind = "ok"}
Skipped == {k \in DOMAIN quote_log : quote_log[k].kind \in {"raise", "noprice"}}
LoopOver == pc \in {"hist_loop", "hist_info", "hist_fx", "hist_join", "done",
                    "crashed"} /\ tickers # <<>>

\* What holding k is worth, from the collaborator's answer and the inputs.
ExpectedPriceGbp(k) ==
    LET q == quote_log[k]
    IN (IF q.exchange = "LSE" THEN q.raw ELSE q.raw * 100) * q.rate
ExpectedValue == [k \in Resolved |-> ExpectedPriceGbp(k) * shares[k]]
ExpectedCost == [k \in Resolved |-> buy_prices_gbp[k] * shares[k]]

\* C1: a holding whose quote fetch raises or whose price is missing is skipped
\* and left out of the totals, every other holding is still evaluated, the
\* loop ends only after the last holding, and rows, totals and summary are
\* those of exactly the holdings that resolved.
C1_SkipAndContinue ==
    /\ pc \in {"loop", "fx", "compute"} => Len(quote_log) = i - 1
    /\ LoopOver => Len(quote_log) = Len(tickers)
    /\ DOMAIN quote_log = Resolved \cup Skipped
    /\ Range(contrib.rows) = Resolved
    /\ Len(portfolio_data) = Cardinality(Resolved)
    /\ \A k \in Skipped : k \notin contrib.value \cup contrib.cost
    /\ total_value_gbp = SumOver(Resolved, ExpectedValue)
    /\ total_cost_gbp = SumOver(Resolved, ExpectedCost)
    /\ pc = "hist_loop" =>
         total_return =
           IF SumOver(Resolved, ExpectedCost) > 0
           THEN [err |-> FALSE,
                 num |-> (SumOver(Resolved, ExpectedValue)
                            - SumOver(Resolved, ExpectedCost) * 10000) * 100,
                 den |-> SumOver(Resolved, ExpectedCost) * 10000]
           ELSE Zero

\* A failed first holding, a resolved second one, and the summary made.
C1_Witness ==
    /\ pc = "hist_loop"
    /\ Len(tickers) = 2
    /\ quote_log[1].kind \in {"raise", "noprice"}
    /\ quote_log[2].kind = "ok"
    /\ Len(portfolio_data) = 1

\* C2: the holdings added to total_value_gbp, those added to total_cost_gbp
\* and those with a row are the same set, at every point of the loop and
\* after it, and each total is the sum of its column of the rows.
C2_SameContributors ==
    /\ contrib.value = contrib.cost
    /\ contrib.value = Range(contrib.rows)
    /\ Len(contrib.rows) = Len(portfolio_data)
    /\ total_value_gbp =
         SumSeq([m \in DOMAIN portfolio_data |-> portfolio_data[m].Value])
    /\ total_cost_gbp =
         SumSeq([m \in DOMAIN portfolio_data |-> portfolio_data[m].Cost])

\* Inside the loop, one holding added with a negative cost basis, one skipped.
C2_Witness ==
    /\ pc = "loop"
    /\ Skipped # {}
    /\ \E k \in contrib.cost : buy_prices_gbp[k] * shares[k] < 0

\* An entry float() rejects, in either numeric field, or differing counts.
Unparseable(field) == \E k \in DOMAIN Split(field) : ~ParseFloat(Split(field)[k]).ok
NotPositive(field) ==
    \E k \in DOMAIN Split(field) :
        ~ParseFloat(Split(field)[k]).ok \/ ParseFloat(Split(field)[k]).val <= 0
CountsDiffer ==
    \/ Len(Split(shares_input)) # Len(Split(tickers_input))
    \/ Len(Split(buy_prices_input)) # Len(Split(tickers_input))
ErrorSurfaced ==
    \E m \in DOMAIN notices :
        notices[m].kind \in {"error_shares", "error_buy_prices", "error_mismatch"}

\* C3 as stated: an entry that is not a positive decimal, or differing counts,
\* is rejected with an error before any market-data request.
C3_Original ==
    (/\ tickers_input # <<>>
     /\ pc # "start"
     /\ NotPositive(shares_input) \/ NotPositive(buy_prices_input) \/ CountsDiffer)
    => (requests = 0 /\ ErrorSurfaced)

\* C3 amended: for a non-empty ticker field, an entry float() cannot parse, or
\* differing counts, stops the run with an error before any market-data
\* request; zero and negative numbers parse and are accepted.
C3_RejectedBeforeFetch ==
    /\ pc = "start" => requests = 0
    /\ (/\ tickers_input # <<>>
        /\ pc # "start"
        /\ Unparseable(shares_input) \/ Unparseable(buy_prices_input) \/ CountsDiffer)
       => (/\ pc = "stopped"
           /\ requests = 0
           /\ quote_log = <<>>
           /\ ErrorSurfaced)
    /\ (/\ tickers_input # <<>>
        /\ pc # "start"
        /\ ~(Unparseable(shares_input) \/ Unparseable(buy_prices_input) \/ CountsDiffer))
       => ~ErrorSurfaced /\ pc # "stopped"

\* A run stopped on a second entry that float() rejects.
C3_Witness ==
    /\ pc = "stopped"
    /\ Len(shares_input) = 2
    /\ ParseFloat(shares_input[1]).ok
    /\ ~ParseFloat(shares_input[2]).ok
    /\ ErrorSurfaced
    /\ requests = 0

\* C4: no run ends with an unhandled failure, whichever external call fails,
\* and a run where nothing resolved ends with no rows and no summary.
C4_NoUnhandledFailure ==
    /\ pc # "crashed"
    /\ crash = ""
    /\ (pc = "done" /\ portfolio_data = <<>>) =>
         (total_return = NoSummary /\ chart = NoChart)

RECURSIVE IsSubseq(_, _)
\* s is a subsequence of t.
IsSubseq(s, t) ==
    IF s = <<>> THEN TRUE
    ELSE IF t = <<>> THEN FALSE
    ELSE IF Head(s) = Head(t) THEN IsSubseq(Tail(s), Tail(t))
    ELSE IsSubseq(s, Tail(t))

\* C5: the rows keep input order: the row symbols are a subsequence of the
\* tickers, each row is that of the holding it came from, and the holdings of
\* the rows come in increasing input position.
C5_InputOrder ==
    /\ IsSubseq([m \in DOMAIN portfolio_data |-> portfolio_data[m].Ticker], tickers)
    /\ Len(contrib.rows) = Len(portfolio_data)
    /\ \A m \in DOMAIN portfolio_data :
         /\ portfolio_data[m].Ticker = tickers[contrib.rows[m]]
         /\ portfolio_data[m].Shares = shares[contrib.rows[m]]
    /\ \A m, n \in DOMAIN contrib.rows : m < n => contrib.rows[m] < contrib.rows[n]

\* Two rows of different symbols.
C5_Witness ==
    /\ Len(portfolio_data) = 2
    /\ portfolio_data[1].Ticker # portfolio_data[2].Ticker

\* C6: for a currency other than GBP the lookup asks the collaborator once,
\* returns the latest close when there is data and 1.0 when the frame is empty
\* or the request raises, and never raises itself, in either loop.
C6_FxFailsOpen ==
    /\ ~fx.raised
    /\ crash # "fx"
    /\ \A k \in DOMAIN quote_log : quote_log[k].kind # "fx_fault"
    /\ (pc \in {"compute", "hist_join"} /\ info.currency # "GBP") =>
         /\ fx.from = info.currency
         /\ fx.calls = 1
         /\ fx.resp.kind = "data" => fx.rate = fx.resp.close
         /\ fx.resp.kind \in {"empty", "raise"} => fx.rate = 100

\* The request raised and the lookup returned 1.0.
C6_Witness ==
    /\ pc \in {"compute", "hist_join"}
    /\ fx.from = "USD"
    /\ fx.resp.kind = "raise"
    /\ fx.rate = 100

\* C7: a lookup for GBP returns exactly 1.0 and issues no request.
C7_BaseCurrencyNoCall ==
    [][(pc \in {"fx", "hist_fx"} /\ info.currency = "GBP")
         => (requests' = requests /\ fx'.rate = 100 /\ fx'.calls = 0
             /\ ~fx'.raised /\ pc' \in {"compute", "hist_join"})]_vars

\* A GBP lookup has returned 1.0.
C7_Witness ==
    /\ pc \in {"compute", "hist_join"}
    /\ fx.from = "GBP"
    /\ fx.rate = 100
    /\ fx.calls = 0

\* The row of holding k.
RowOf(k) == portfolio_data[CHOOSE m \in DOMAIN contrib.rows : contrib.rows[m] = k]

\* C8: the pence correction is applied exactly once and before the FX
\* multiplication: an LSE quote of raw price p (a multiple of 100) gets the GBP
\* price a non-LSE quote of p/100 gets at the same rate, its native price is
\* p/100 and its GBP price is native times rate; a non-LSE price is not divided.
C8_MinorUnitOnce ==
    \A k \in Resolved :
        LET q == quote_log[k]
            row == RowOf(k)
        IN /\ row.PriceGbp = row.PriceNative * q.rate
           /\ (q.exchange = "LSE" /\ q.raw % 100 = 0) =>
                /\ row.PriceGbp = ((q.raw \div 100) * 100) * q.rate
                /\ row.PriceGbp =
                     CurrentPriceGbp(CurrentPriceNative("NYQ", q.raw \div 100), q.rate)
                /\ row.PriceNative * 100 = q.raw * 100
           /\ q.exchange # "LSE" => row.PriceNative = q.raw * 100

\* An LSE holding in a foreign currency with a resolved FX rate has a row.
C8_Witness ==
    \E k \in Resolved :
        /\ quote_log[k].exchange = "LSE"
        /\ quote_log[k].raw % 100 = 0
        /\ quote_log[k].rate = 50
        /\ RowOf(k).PriceGbp = (quote_log[k].raw \div 100) * 100 * 50

\* C9: no division by zero: a holding whose buy price is not positive gets a
\* return of 0 and is still added to the rows and both totals, and a total
\* cost that is not positive gives an overall return of 0.
C9_NoDivisionFault ==
    /\ crash # "ZeroDivisionError"
    /\ \A k \in DOMAIN quote_log : quote_log[k].kind # "fault"
    /\ \A m \in DOMAIN portfolio_data : ~portfolio_data[m].Return.err
    /\ \A k \in Resolved :
         buy_prices_gbp[k] <= 0 =>
           /\ k \in Range(contrib.rows)
           /\ RowOf(k).Return = Zero
           /\ k \in contrib.value /\ k \in contrib.cost
    /\ \A k \in Resolved :
         buy_prices_gbp[k] > 0 =>
           /\ RowOf(k).Return.den = buy_prices_gbp[k] * 10000
           /\ RowOf(k).Return.num =
                (RowOf(k).PriceGbp - buy_prices_gbp[k] * 10000) * 100
    /\ ~total_return.err
    /\ (pc = "hist_loop" /\ total_cost_gbp <= 0) => total_return = Zero
    /\ (pc = "hist_loop" /\ total_cost_gbp > 0) => total_return.den # 0

\* A holding bought at 0 is in the rows and the summary is made on a total
\* cost of 0.
C9_Witness ==
    /\ pc = "hist_loop"
    /\ total_cost_gbp = 0
    /\ total_return = Zero
    /\ \E k \in Resolved : buy_prices_gbp[k] = 0 /\ shares[k] > 0

\* Holdings whose history was joined into the chart frame.
Charted == {k \in DOMAIN hist_log : hist_log[k].kind = "frame"}
ChartDates == UNION {DOMAIN hist_log[k].closes : k \in Charted}
\* Holding k's value at date d: its latest close up to d, pence-corrected,
\* converted and multiplied by shares; nothing before its first close.
ExpectedAt(k, d) ==
    LET e == hist_log[k]
        upto == {p \in DOMAIN e.closes : p <= d}
    IN IF upto = {} THEN 0
       ELSE (IF e.exchange = "LSE"
             THEN e.closes[MaxOf(upto)]
             ELSE e.closes[MaxOf(upto)] * 100) * e.rate * shares[k]

\* C10: every close of every charted holding is divided by 100 on LSE,
\* multiplied by the FX rate and by shares, and the charted series is defined
\* on the union of the dates and is at each date the sum of the holdings'
\* values, a holding without a close on the date counting with its latest
\* earlier value.
C10_HistoricalSeries ==
    /\ Len(combined_df.cols) = Cardinality(Charted)
    /\ pc \in {"hist_loop", "hist_info", "hist_fx", "hist_join"} =>
         /\ combined_df.idx = ChartDates
         /\ \A k \in Charted :
              \E m \in DOMAIN combined_df.cols :
                /\ combined_df.cols[m].name = tickers[k]
                /\ DOMAIN combined_df.cols[m].vals = DOMAIN hist_log[k].closes
                /\ \A d \in DOMAIN hist_log[k].closes :
                     combined_df.cols[m].vals[d] = ExpectedAt(k, d)
    /\ (pc = "done" /\ Charted # {}) =>
         /\ DOMAIN chart = ChartDates
         /\ \A d \in ChartDates :
              chart[d] = SumOver(Charted, [k \in Charted |-> ExpectedAt(k, d)])
    /\ (pc = "done" /\ Charted = {}) => chart = NoChart

\* A chart of two holdings, one on LSE, where one has a close on the first
\* date only and the other also on the second: the first is forward-filled.
C10_Witness ==
    /\ pc = "done"
    /\ Cardinality(Charted) = 2
    /\ \E k \in Charted : hist_log[k].exchange = "LSE" /\ hist_log[k].rate = 50
    /\ \E k \in Charted :
         /\ DOMAIN hist_log[k].closes = {1}
         /\ 2 \in DOMAIN chart
         /\ chart[2] > ExpectedAt(k, 2)
         /\ ExpectedAt(k, 2) > 0

====
